---- MODULE Spec2Model ----
(***************************************************************************)
(* Model of the subtitle analyzer agent:                                   *)
(*   - app/services/ai_word_serviceV2.py : the batch enhancement           *)
(*     orchestrator (fetch, chunking, bounded-concurrency batch tasks,     *)
(*     payload building, reconciliation into one shared session, commit);  *)
(*   - app/agent/graph.py, app/agent/nodes.py : the extract / generate /   *)
(*     validate retry graph.                                               *)
(* The specifications share the variables:                                 *)
(*   Spec          one enhance run of the orchestrator,                    *)
(*   SpecRerun     two enhance runs on a small subtitle, any response,     *)
(*                 the fetch may fail,                                     *)
(*   SpecEcho      the same two runs with a service that echoes all ids,   *)
(*   SpecPayload   _build_ai_payload applied to bounded chunks,            *)
(*   SpecGraph     the runs of the retry graph,                            *)
(*   SpecGraphLive the retry graph with its nodes executed fairly,         *)
(*   SpecStall     one enhance run whose generation calls may never        *)
(*                 return, its tasks executed fairly.                      *)
(***************************************************************************)
EXTENDS Integers, Sequences, FiniteSets, TLC

\* ---------------------------------------------------------------- bounds
NumWords == 4          \* word_entries rows of the store (ids 1..NumWords)
MaxBatchSize == 2      \* batch_size values tried: 1..MaxBatchSize
MaxFaults == 1         \* batches of one run whose outcome is not the echo response
MaxChunkSentences == 3 \* sentences of a chunk handed to _build_ai_payload on its own
MaxSentenceWords == 3  \* words of one such sentence
MaxEntries == 2        \* entries one Generate step returns, words one Extract step returns
MaxRerunWords == 2     \* valid words of the subtitle that is enhanced twice

\* ------------------------------------------------------ program constants
SemaphoreLimitOff == 3 + 1
SemaphoreLimit == 3    \* asyncio.Semaphore(3)
GroupSize == 3         \* range(0, len(all_word_ids), 3), all_word_ids[i: i + 3]
RetryLimit == 3        \* state["retry_count"] < 3

Words == 1..NumWords
Sentences == 1..NumWords       \* a sentence without words is never fetched
Subtitles == {1, 2}            \* subtitle 2 owns no word
BatchSizes == 1..MaxBatchSize

Min(a, b) == IF a < b THEN a ELSE b

RECURSIVE SumSeq(_)
SumSeq(s) == IF s = <<>> THEN 0 ELSE Head(s) + SumSeq(Tail(s))

RECURSIVE Flatten(_)
Flatten(ss) == IF ss = <<>> THEN <<>> ELSE Head(ss) \o Flatten(Tail(ss))

Range(s) == {s[i] : i \in DOMAIN s}

\* 1, 2, ..., n as a sequence.
Indices(n) == [i \in 1..n |-> i]

VARIABLES
    \* ---- the store (committed rows)
    wsent,            \* word id -> first_occurrence_id
    wvalid,           \* word id -> is_valid
    wsub,             \* word id -> subtitle_id
    db,               \* committed rows: translations, examples, learning contents, levels
    db0,              \* the committed rows when the current run started (history)
    \* ---- one enhance run
    pc,               \* "idle", "running", "returned", "raised", "fetch_raised"
    runs,             \* enhance runs started
    requests,         \* enhance requests the client has still to send
    subtitle_id, batch_size,
    sess,             \* the shared Session: transaction view and pending inserts
    sentence_tasks, chunks,
    task,             \* batch -> "waiting", "calling", "done", "stalled" (call never returns)
    sem,              \* value of self.semaphore
    payload,          \* batch -> payload sent to the generation service
    outcome,          \* batch -> how its task ended
    resp,             \* batch -> parsed response handed to _save_v3_results
    result,           \* batch -> value returned by _process_batch_v3 (-1: not yet)
    doneq,            \* finished tasks in completion order, not yet yielded by as_completed
    success_counts, completed_count,
    commits,          \* session.commit() calls of the run
    ret,              \* value returned by enhance_words_hybrid (-1: none)
    faults,           \* batches of the run that ended with a fault or a non-echo response
    \* ---- _build_ai_payload on its own
    pb_chunk, pb_out,
    \* ---- the retry graph
    g_node, g_state, g_gen_calls, g_loops,
    g_verdicts        \* the error each Validate step returned, in order (history)

storeVars == <<wsent, wvalid, wsub, db>>
runVars == <<pc, runs, subtitle_id, batch_size, sess, sentence_tasks, chunks, task, sem,
             payload, outcome, resp, result, doneq, success_counts, completed_count,
             commits, ret, faults, db0, requests>>
pbVars == <<pb_chunk, pb_out>>
graphVars == <<g_node, g_state, g_gen_calls, g_loops, g_verdicts>>
vars == <<storeVars, runVars, pbVars, graphVars>>

\* ============================================================== fetch
\* Rows of the select: WordEntry joined to its first-occurrence sentence,
\* filtered by subtitle_id and is_valid, in word id order.
\* (faulty variant first: the is_valid filter is missing)
FetchRowsAnyValidity(sid) ==
    SelectSeq([w \in 1..NumWords |-> w],
              LAMBDA w : wsub[w] = sid /\ wsent[w] \in Sentences)
FetchRows(sid) ==
    SelectSeq([w \in 1..NumWords |-> w],
              LAMBDA w : wsub[w] = sid /\ wvalid[w] /\ wsent[w] \in Sentences)

\* sentence_map: one SentenceTaskDTO per sentence id in first-seen order,
\* each collecting its words in row order.
RECURSIVE GroupRows(_, _)
GroupRows(rows, acc) ==
    IF rows = <<>> THEN acc
    ELSE LET w == Head(rows)
             s == wsent[w]
             hit == SelectSeq(Indices(Len(acc)), LAMBDA t : acc[t].sentence_id = s)
         IN  IF hit = <<>>
             THEN GroupRows(Tail(rows),
                            Append(acc, [sentence_id |-> s, words |-> <<w>>]))
             ELSE GroupRows(Tail(rows),
                            [acc EXCEPT ![hit[1]].words = Append(@, w)])

FetchAnalysisTargets(sid) == GroupRows(FetchRows(sid), <<>>)

\* ============================================================== chunking
\* [sentence_tasks[i: i + batch_size] for i in range(0, len(sentence_tasks), batch_size)]
\* (faulty variant first: slices one sentence too long)
ChunkListOverlap(tasks, n) ==
    [k \in 1..((Len(tasks) + n - 1) \div n) |->
        SubSeq(tasks, (k - 1) * n + 1, Min(k * n + 1, Len(tasks)))]
ChunkList(tasks, n) ==
    [k \in 1..((Len(tasks) + n - 1) \div n) |->
        SubSeq(tasks, (k - 1) * n + 1, Min(k * n, Len(tasks)))]

ChunkWordIds(chunk) == Flatten([t \in 1..Len(chunk) |-> chunk[t].words])
ChunkSentenceIds(chunk) == [t \in 1..Len(chunk) |-> chunk[t].sentence_id]

\* ============================================================== payload
\* for i in range(max_words_in_sentence): for task in chunk:
\*     if i < len(task.words): all_word_ids.append(task.words[i].word_id)
MaxWordsInSentence(chunk) ==
    IF chunk = <<>> THEN 0
    ELSE CHOOSE m \in {Len(chunk[t].words) : t \in 1..Len(chunk)} :
            \A t \in 1..Len(chunk) : Len(chunk[t].words) <= m

InterleaveRow(chunk, i) ==
    LET idx == SelectSeq(Indices(Len(chunk)), LAMBDA t : i <= Len(chunk[t].words))
    IN  [k \in 1..Len(idx) |-> chunk[idx[k]].words[i]]

\* Faulty variant: the words sentence after sentence, not interleaved.
InterleaveSentenceMajor(chunk) == ChunkWordIds(chunk)
Interleave(chunk) ==
    Flatten([i \in 1..MaxWordsInSentence(chunk) |-> InterleaveRow(chunk, i)])

\* Faulty variants of the grouping: slices one element too long; gids from 0.
GroupsOfOverlap(ids) ==
    [g \in 1..((Len(ids) + GroupSize - 1) \div GroupSize) |->
        [gid |-> g,
         wids |-> SubSeq(ids, (g - 1) * GroupSize + 1, Min(g * GroupSize + 1, Len(ids)))]]
GroupsOfZeroBased(ids) ==
    [g \in 1..((Len(ids) + GroupSize - 1) \div GroupSize) |->
        [gid |-> g - 1,
         wids |-> SubSeq(ids, (g - 1) * GroupSize + 1, Min(g * GroupSize, Len(ids)))]]
\* for i in range(0, len(all_word_ids), 3): {"gid": i // 3 + 1, "wids": all_word_ids[i: i + 3]}
GroupsOf(ids) ==
    [g \in 1..((Len(ids) + GroupSize - 1) \div GroupSize) |->
        [gid |-> g,
         wids |-> SubSeq(ids, (g - 1) * GroupSize + 1, Min(g * GroupSize, Len(ids)))]]

BuildAiPayload(chunk) ==
    [data |-> [t \in 1..Len(chunk) |-> [id |-> chunk[t].sentence_id,
                                         words |-> chunk[t].words]],
     groups |-> GroupsOf(Interleave(chunk))]

\* ============================================================== session
\* The Session of one request: `trans', `exs', `extrans', `lcs', `level' are the
\* rows as the open transaction sees them (committed rows, flushed inserts and
\* attribute updates); `p*' are objects passed to session.add and not flushed
\* yet.  `active' is FALSE once a flush has failed: the transaction is rolled
\* back and every later use of the session raises until rollback() is called,
\* which this code never does.
NewSession(dbv) ==
    [active |-> TRUE,
     trans |-> dbv.trans, exs |-> dbv.exs, extrans |-> dbv.extrans,
     lcs |-> dbv.lcs, level |-> dbv.level,
     ptrans |-> <<>>, pexs |-> <<>>, pextrans |-> <<>>, plcs |-> <<>>]

\* (faulty variant first: the session is rolled back and usable again)
RolledBackAndReset(dbv) == NewSession(dbv)
RolledBack(dbv) == [NewSession(dbv) EXCEPT !.active = FALSE]

\* UniqueConstraint("subtitle_sentence_id", "language_code") of
\* subtitle_translations; every row written here has language_code "ko".
\* (faulty variant first: the table has no such constraint)
UqSentenceLangOff(rows) == TRUE
UqSentenceLang(rows) ==
    \A i, j \in 1..Len(rows) : rows[i].sid = rows[j].sid => i = j

\* word_learning_contents.word_entry_id is unique=True.
\* (faulty variant first: the column is not unique)
UqWordEntryOff(rows) == TRUE
UqWordEntry(rows) ==
    \A i, j \in 1..Len(rows) : rows[i].wid = rows[j].wid => i = j

\* session.flush(), also run by autoflush before a query and by commit():
\* inserts every pending object; a violated unique constraint raises, rolls
\* the transaction back and leaves the session inactive.
\* (faulty variant first: a failed flush discards only the rows that violate a
\* constraint, writes the others and leaves the session usable)
FlushKeepingRest(s, dbv) ==
    IF ~s.active THEN [s |-> s, raised |-> TRUE]
    ELSE IF ~UqSentenceLang(s.trans \o s.ptrans) \/ ~UqWordEntry(s.lcs \o s.plcs)
         THEN [s |-> [s EXCEPT !.ptrans = <<>>, !.plcs = <<>>,
                               !.exs = s.exs \o s.pexs, !.pexs = <<>>,
                               !.extrans = s.extrans \o s.pextrans, !.pextrans = <<>>],
               raised |-> TRUE]
         ELSE [s |-> [s EXCEPT !.trans = s.trans \o s.ptrans, !.ptrans = <<>>,
                               !.exs = s.exs \o s.pexs, !.pexs = <<>>,
                               !.extrans = s.extrans \o s.pextrans, !.pextrans = <<>>,
                               !.lcs = s.lcs \o s.plcs, !.plcs = <<>>],
               raised |-> FALSE]
Flush(s, dbv) ==
    IF ~s.active THEN [s |-> s, raised |-> TRUE]
    ELSE IF ~UqSentenceLang(s.trans \o s.ptrans) \/ ~UqWordEntry(s.lcs \o s.plcs)
         THEN [s |-> RolledBack(dbv), raised |-> TRUE]
         ELSE [s |-> [s EXCEPT !.trans = s.trans \o s.ptrans, !.ptrans = <<>>,
                               !.exs = s.exs \o s.pexs, !.pexs = <<>>,
                               !.extrans = s.extrans \o s.pextrans, !.pextrans = <<>>,
                               !.lcs = s.lcs \o s.plcs, !.plcs = <<>>],
               raised |-> FALSE]

\* ============================================================== reconciliation
\* (1) for trans in ai_data.trans: skip an s_id outside the chunk; update the row
\* found by the select before the loop (trans_map), else session.add a new row.
\* `src' of a row records the run and batch that wrote it last (provenance, not
\* a column).
\* (faulty variant first: always inserts, never updates)
RECURSIVE SaveTransInsertOnly(_, _, _, _, _)
SaveTransInsertOnly(s, src, sids, mapped, trans) ==
    IF trans = <<>> THEN s
    ELSE LET t == Head(trans)
         IN  IF t.s_id \notin sids THEN SaveTransInsertOnly(s, src, sids, mapped, Tail(trans))
             ELSE SaveTransInsertOnly(
                         [s EXCEPT !.ptrans = Append(@, [sid |-> t.s_id, text |-> t.tr_ko,
                                                         src |-> src])],
                         src, sids, mapped, Tail(trans))
RECURSIVE SaveTrans(_, _, _, _, _)
SaveTrans(s, src, sids, mapped, trans) ==
    IF trans = <<>> THEN s
    ELSE LET t == Head(trans)
         IN  IF t.s_id \notin sids THEN SaveTrans(s, src, sids, mapped, Tail(trans))
             ELSE IF t.s_id \in mapped
                  THEN SaveTrans(
                         [s EXCEPT !.trans = [i \in 1..Len(s.trans) |->
                              IF s.trans[i].sid = t.s_id
                              THEN [s.trans[i] EXCEPT !.text = t.tr_ko, !.src = src]
                              ELSE s.trans[i]]],
                         src, sids, mapped, Tail(trans))
                  ELSE SaveTrans(
                         [s EXCEPT !.ptrans = Append(@, [sid |-> t.s_id, text |-> t.tr_ko,
                                                         src |-> src])],
                         src, sids, mapped, Tail(trans))

\* (2) for ex in ai_data.exs: session.add(ExampleSentence), session.flush(),
\* example_id_map[ex.gid] = new id, session.add(ExampleTranslation).
\* st = [s, map, raised]; a row records the gid and wids of the response entry
\* it was created for and its `src' (provenance, not columns).
RECURSIVE SaveExs(_, _, _, _)
SaveExs(st, dbv, src, exs) ==
    IF exs = <<>> \/ st.raised THEN st
    ELSE LET ex == Head(exs)
             added == [st.s EXCEPT !.pexs = Append(@, [text |-> ex.ex_ja,
                                                      gid |-> ex.gid, wids |-> ex.wids,
                                                      src |-> src])]
             fl == Flush(added, dbv)
             id == Len(fl.s.exs)
         IN  IF fl.raised THEN [st EXCEPT !.s = fl.s, !.raised = TRUE]
             ELSE SaveExs([s |-> [fl.s EXCEPT !.pextrans = Append(@, [example_id |-> id,
                                                                     text |-> ex.ex_ko])],
                           map |-> (ex.gid :> id) @@ st.map,
                           raised |-> FALSE],
                          dbv, src, Tail(exs))

\* next((ex.gid for ex in ai_data.exs if def_res.w_id in ex.wids), None); 0 is None
TargetGroupId(exs, w) ==
    LET hit == SelectSeq(Indices(Len(exs)), LAMBDA k : w \in Range(exs[k].wids))
    IN  IF hit = <<>> THEN 0 ELSE exs[hit[1]].gid

\* (3) for def_res in ai_data.words: skip a w_id outside the chunk; set the
\* level of the word's metadata (its first access in the request loads the
\* relationship, which autoflushes); session.add one WordLearningContent when
\* the word's group has an example; count it.
\* st = [s, count, loaded, raised]
RECURSIVE SaveWords(_, _, _, _, _, _, _)
SaveWords(st, dbv, src, wordIds, map, exs, defs) ==
    IF defs = <<>> \/ st.raised THEN st
    ELSE LET d == Head(defs)
         IN  IF d.w_id \notin wordIds
             THEN SaveWords(st, dbv, src, wordIds, map, exs, Tail(defs))
             ELSE LET fl == IF d.w_id \in st.loaded
                            THEN [s |-> st.s, raised |-> FALSE]
                            ELSE Flush(st.s, dbv)
                      gid == TargetGroupId(exs, d.w_id)
                      upd == [fl.s EXCEPT !.level[d.w_id] = d.lv]
                  IN  IF fl.raised THEN [st EXCEPT !.s = fl.s, !.raised = TRUE]
                      ELSE IF gid \in DOMAIN map
                           THEN SaveWords(
                                  [s |-> [upd EXCEPT !.plcs = Append(@,
                                             [wid |-> d.w_id, ex |-> map[gid],
                                              meaning |-> d.m, src |-> src])],
                                   count |-> st.count + 1,
                                   loaded |-> st.loaded \cup {d.w_id},
                                   raised |-> FALSE],
                                  dbv, src, wordIds, map, exs, Tail(defs))
                           ELSE SaveWords(
                                  [st EXCEPT !.s = upd,
                                             !.loaded = st.loaded \cup {d.w_id}],
                                  dbv, src, wordIds, map, exs, Tail(defs))

\* _save_v3_results: [s |-> session afterwards, count |-> success_count,
\* raised |-> an exception left the function].
SaveV3Results(s, dbv, src, chunk, ai) ==
    LET sids == Range(ChunkSentenceIds(chunk))
        wordIds == Range(ChunkWordIds(chunk))
        \* session.get of the chunk's words, then the select of the existing
        \* translations, which autoflushes
        fl == Flush(s, dbv)
        mapped == {fl.s.trans[i].sid : i \in 1..Len(fl.s.trans)} \cap sids
        s1 == SaveTrans(fl.s, src, sids, mapped, ai.trans)
        e == SaveExs([s |-> s1, map |-> <<>>, raised |-> FALSE], dbv, src, ai.exs)
        w == SaveWords([s |-> e.s, count |-> 0, loaded |-> {}, raised |-> FALSE],
                       dbv, src, wordIds, e.map, ai.exs, ai.words)
    IN  IF fl.raised THEN [s |-> fl.s, count |-> 0, raised |-> TRUE]
        ELSE IF e.raised THEN [s |-> e.s, count |-> 0, raised |-> TRUE]
        ELSE [s |-> w.s, count |-> w.count, raised |-> w.raised]

\* ============================================================== responses
\* A parsed AIWordEnhanceResponseV4 for payload p.  "echo" returns every id of
\* the request unchanged: one translation per data sentence, one definition per
\* data word, one example per group.  The other kinds are schema-valid answers
\* that depart from it in one place:
\*   "dup_trans"  the first translation entry is listed twice,
\*   "dup_word"   the first word definition is listed twice,
\*   "trans_only" no word definitions and no examples,
\*   "unknown_s"  one more translation, for a sentence id not in the request,
\*   "unknown_w"  one more definition (level "N1"), for a word id not in the request,
\*   "unknown_g"  one more example, listed first, for a gid not in the request,
\*                naming the words of the request's first group.
\* txt stands for the generated texts.
EchoTrans(p, txt) == [i \in 1..Len(p.data) |-> [s_id |-> p.data[i].id, tr_ko |-> txt]]
EchoWords(p, txt) ==
    LET ids == Flatten([i \in 1..Len(p.data) |-> p.data[i].words])
    IN  [i \in 1..Len(ids) |-> [w_id |-> ids[i], m |-> txt, lv |-> "N3"]]
EchoExs(p, txt) ==
    [g \in 1..Len(p.groups) |-> [gid |-> p.groups[g].gid, wids |-> p.groups[g].wids,
                                 ex_ja |-> txt, ex_ko |-> txt]]

\* The smallest sentence id, word id, that the request does not contain.
OtherSentence(p) ==
    LET free == (1..(NumWords + 1)) \ {p.data[i].id : i \in 1..Len(p.data)}
    IN  CHOOSE x \in free : \A y \in free : x <= y
OtherWord(p) ==
    LET free == (1..(NumWords + 1)) \ UNION {Range(p.data[i].words) : i \in 1..Len(p.data)}
    IN  CHOOSE x \in free : \A y \in free : x <= y

ResponseKinds == {"echo", "dup_trans"}

Response(p, kind, txt) ==
    [trans |-> CASE kind = "dup_trans" -> <<EchoTrans(p, txt)[1]>> \o EchoTrans(p, txt)
                 [] kind = "unknown_s" ->
                      <<[s_id |-> OtherSentence(p), tr_ko |-> txt]>> \o EchoTrans(p, txt)
                 [] OTHER -> EchoTrans(p, txt),
     words |-> CASE kind = "trans_only" -> <<>>
                 [] kind = "dup_word" -> <<EchoWords(p, txt)[1]>> \o EchoWords(p, txt)
                 [] kind = "unknown_w" ->
                      <<[w_id |-> OtherWord(p), m |-> txt, lv |-> "N1"]>> \o EchoWords(p, txt)
                 [] OTHER -> EchoWords(p, txt),
     exs   |-> CASE kind \in {"trans_only", "no_exs"} -> <<>>
                 [] kind = "unknown_g" ->
                      <<[gid |-> Len(p.groups) + 1, wids |-> p.groups[1].wids,
                         ex_ja |-> txt, ex_ko |-> txt]>> \o EchoExs(p, txt)
                 [] OTHER -> EchoExs(p, txt)]

NoPayload == [data |-> <<>>, groups |-> <<>>]
NoResponse == [trans |-> <<>>, words |-> <<>>, exs |-> <<>>]

\* ============================================================== enhance_words_hybrid
Batches == 1..Len(chunks)

EmptyDb ==
    [trans |-> <<>>, exs |-> <<>>, extrans |-> <<>>, lcs |-> <<>>,
     level |-> [w \in Words |-> "WAIT"]]

StartRun(sid, bs, tasks, cs) ==
    /\ runs' = runs + 1
    /\ requests' = requests - 1
    /\ subtitle_id' = sid
    /\ batch_size' = bs
    /\ sess' = NewSession(db)
    /\ sentence_tasks' = tasks
    /\ chunks' = cs
    /\ task' = [b \in 1..Len(cs) |-> "waiting"]
    /\ sem' = SemaphoreLimit
    /\ payload' = [b \in 1..Len(cs) |-> NoPayload]
    /\ outcome' = [b \in 1..Len(cs) |-> "none"]
    /\ resp' = [b \in 1..Len(cs) |-> NoResponse]
    /\ result' = [b \in 1..Len(cs) |-> -1]
    /\ doneq' = <<>>
    /\ success_counts' = <<>>
    /\ completed_count' = 0
    /\ commits' = 0
    /\ faults' = 0
    /\ db0' = db

\* Lines 141-148: the fetch yields nothing, return 0.
EnhanceNoop(sid, bs) ==
    /\ pc \in {"idle", "returned", "raised", "fetch_raised"}
    /\ requests > 0
    /\ FetchAnalysisTargets(sid) = <<>>
    /\ StartRun(sid, bs, <<>>, <<>>)
    /\ pc' = "returned"
    /\ ret' = 0
    /\ UNCHANGED <<storeVars, pbVars, graphVars>>

\* Lines 141-165: fetch, chunking, one task per chunk; the tasks are scheduled
\* by as_completed and each runs up to its first wait.
EnhanceStart(sid, bs) ==
    /\ pc \in {"idle", "returned", "raised", "fetch_raised"}
    /\ requests > 0
    /\ FetchAnalysisTargets(sid) # <<>>
    /\ StartRun(sid, bs, FetchAnalysisTargets(sid),
                ChunkList(FetchAnalysisTargets(sid), bs))
    /\ pc' = "running"
    /\ ret' = -1
    /\ UNCHANGED <<storeVars, pbVars, graphVars>>

\* A faulty variant: the failure of the fetch surfaces only after the tasks
\* were created.
EnhanceFetchRaisesLate(sid, bs) ==
    /\ pc \in {"idle", "returned", "raised", "fetch_raised"}
    /\ requests > 0
    /\ StartRun(sid, bs, FetchAnalysisTargets(sid),
                ChunkList(FetchAnalysisTargets(sid), bs))
    /\ pc' = "fetch_raised"
    /\ ret' = -1
    /\ UNCHANGED <<storeVars, pbVars, graphVars>>

\* Lines 141-144 with 94-112: session.exec raises inside _fetch_analysis_targets
\* (the store cannot be read); nothing catches it, so enhance raises at line
\* 144, before the chunks and the tasks exist.
EnhanceFetchRaises(sid, bs) ==
    /\ pc \in {"idle", "returned", "raised", "fetch_raised"}
    /\ requests > 0
    /\ StartRun(sid, bs, <<>>, <<>>)
    /\ pc' = "fetch_raised"
    /\ ret' = -1
    /\ UNCHANGED <<storeVars, pbVars, graphVars>>

\* _process_batch_v3, lines 198-207: enter `async with self.semaphore', build
\* the payload, start the generation call.
AcquireSlot(b) ==
    /\ pc = "running"
    /\ task[b] = "waiting"
    /\ sem > 0
    /\ sem' = sem - 1
    /\ task' = [task EXCEPT ![b] = "calling"]
    /\ payload' = [payload EXCEPT ![b] = BuildAiPayload(chunks[b])]
    /\ UNCHANGED <<storeVars, pbVars, graphVars, pc, runs, subtitle_id, batch_size, sess,
                   sentence_tasks, chunks, outcome, resp, result, doneq, success_counts,
                   completed_count, commits, ret, faults, db0, requests>>

\* The task of batch b returns n: leaves the `async with' (slot released) and
\* its future completes.
FinishTask(b, how, n) ==
    /\ task' = [task EXCEPT ![b] = "done"]
    /\ outcome' = [outcome EXCEPT ![b] = how]
    /\ result' = [result EXCEPT ![b] = n]
    /\ sem' = sem + 1
    /\ doneq' = Append(doneq, b)

\* Lines 209-224: llm.ainvoke raises; except Exception: return 0.
GenerationRaises(b) ==
    /\ pc = "running"
    /\ task[b] = "calling"
    /\ faults < MaxFaults
    /\ faults' = faults + 1
    /\ FinishTask(b, "gen_error", 0)
    /\ UNCHANGED <<storeVars, pbVars, graphVars, pc, runs, subtitle_id, batch_size, sess,
                   sentence_tasks, chunks, payload, resp, success_counts,
                   completed_count, commits, ret, db0, requests>>

\* Lines 209-224: llm.ainvoke returns, parser.parse raises; return 0.
ParseRaises(b) ==
    /\ pc = "running"
    /\ task[b] = "calling"
    /\ faults < MaxFaults
    /\ faults' = faults + 1
    /\ FinishTask(b, "parse_error", 0)
    /\ UNCHANGED <<storeVars, pbVars, graphVars, pc, runs, subtitle_id, batch_size, sess,
                   sentence_tasks, chunks, payload, resp, success_counts,
                   completed_count, commits, ret, db0, requests>>

\* Line 210: the awaited llm.ainvoke never completes.  The task stays inside
\* `async with self.semaphore' for ever; nothing else changes.
GenerationStalls(b) ==
    /\ pc = "running"
    /\ task[b] = "calling"
    /\ task' = [task EXCEPT ![b] = "stalled"]
    /\ UNCHANGED <<storeVars, pbVars, graphVars, pc, runs, subtitle_id, batch_size, sess,
                   sentence_tasks, chunks, sem, payload, outcome, resp, result, doneq,
                   success_counts, completed_count, commits, ret, faults, db0, requests>>

\* A faulty variant: the task waits once more after _save_v3_results, still
\* holding its slot.
GenerationReturnsSuspending(b, kind, txt) ==
    /\ pc = "running"
    /\ task[b] = "calling"
    /\ kind = "echo" \/ faults < MaxFaults
    /\ faults' = IF kind = "echo" THEN faults ELSE faults + 1
    /\ LET r == Response(payload[b], kind, txt)
           sv == SaveV3Results(sess, db, [run |-> runs, batch |-> b], chunks[b], r)
       IN  /\ resp' = [resp EXCEPT ![b] = r]
           /\ sess' = sv.s
    /\ UNCHANGED <<storeVars, pbVars, graphVars, pc, runs, subtitle_id, batch_size,
                   sentence_tasks, chunks, payload, success_counts, task, outcome,
                   result, sem, doneq, completed_count, commits, ret, db0, requests>>

\* A faulty variant: every task reconciles into a session of its own.
GenerationReturnsPrivate(b, kind, txt) ==
    /\ pc = "running"
    /\ task[b] = "calling"
    /\ kind = "echo" \/ faults < MaxFaults
    /\ faults' = IF kind = "echo" THEN faults ELSE faults + 1
    /\ LET r == Response(payload[b], kind, txt)
           sv == SaveV3Results(NewSession(db), db, [run |-> runs, batch |-> b], chunks[b], r)
       IN  /\ resp' = [resp EXCEPT ![b] = r]
           /\ sess' = sv.s
           /\ FinishTask(b, IF sv.raised THEN "save_error" ELSE "ok",
                            IF sv.raised THEN 0 ELSE sv.count)
    /\ UNCHANGED <<storeVars, pbVars, graphVars, pc, runs, subtitle_id, batch_size,
                   sentence_tasks, chunks, payload, success_counts,
                   completed_count, commits, ret, db0, requests>>

\* Lines 209-224: the call returns and parses; _save_v3_results runs without a
\* wait and its count is returned, or its exception is caught and 0 returned.
GenerationReturns(b, kind, txt) ==
    /\ pc = "running"
    /\ task[b] = "calling"
    /\ kind = "echo" \/ faults < MaxFaults
    /\ faults' = IF kind = "echo" THEN faults ELSE faults + 1
    /\ LET r == Response(payload[b], kind, txt)
           sv == SaveV3Results(sess, db, [run |-> runs, batch |-> b], chunks[b], r)
       IN  /\ resp' = [resp EXCEPT ![b] = r]
           /\ sess' = sv.s
           /\ FinishTask(b, IF sv.raised THEN "save_error" ELSE "ok",
                            IF sv.raised THEN 0 ELSE sv.count)
    /\ UNCHANGED <<storeVars, pbVars, graphVars, pc, runs, subtitle_id, batch_size,
                   sentence_tasks, chunks, payload, success_counts,
                   completed_count, commits, ret, db0, requests>>

\* Faulty variants of the loop body: one commits after every task, one forgets
\* to record the count.
CollectNextCommitting ==
    /\ pc = "running"
    /\ doneq # <<>>
    /\ completed_count + 1 < Len(chunks)
    /\ success_counts' = Append(success_counts, result[Head(doneq)])
    /\ completed_count' = completed_count + 1
    /\ doneq' = Tail(doneq)
    /\ commits' = commits + 1
    /\ LET fl == Flush(sess, db)
       IN  /\ sess' = fl.s
           /\ db' = IF fl.raised THEN db
                    ELSE [trans |-> fl.s.trans, exs |-> fl.s.exs, extrans |-> fl.s.extrans,
                          lcs |-> fl.s.lcs, level |-> fl.s.level]
    /\ UNCHANGED <<wsent, wvalid, wsub, pbVars, graphVars, pc, runs, subtitle_id, batch_size,
                   sentence_tasks, chunks, task, sem, payload, outcome, resp, result,
                   ret, faults, db0, requests>>
CollectNextDropping ==
    /\ pc = "running"
    /\ doneq # <<>>
    /\ completed_count + 1 < Len(chunks)
    /\ completed_count' = completed_count + 1
    /\ doneq' = Tail(doneq)
    /\ UNCHANGED <<storeVars, pbVars, graphVars, pc, runs, subtitle_id, batch_size, sess,
                   sentence_tasks, chunks, task, sem, payload, outcome, resp, result,
                   success_counts, commits, ret, faults, db0, requests>>

\* Lines 174-181: as_completed yields the next finished task; more remain.
CollectNext ==
    /\ pc = "running"
    /\ doneq # <<>>
    /\ completed_count + 1 < Len(chunks)
    /\ success_counts' = Append(success_counts, result[Head(doneq)])
    /\ completed_count' = completed_count + 1
    /\ doneq' = Tail(doneq)
    /\ UNCHANGED <<storeVars, pbVars, graphVars, pc, runs, subtitle_id, batch_size, sess,
                   sentence_tasks, chunks, task, sem, payload, outcome, resp, result,
                   commits, ret, faults, db0, requests>>

\* A faulty variant: the loop ends when every task that is not stalled has
\* been yielded.
CollectLastAndCommitSkippingStalled ==
    /\ pc = "running"
    /\ doneq # <<>>
    /\ completed_count + 1 =
          Len(chunks) - Cardinality({b \in 1..Len(chunks) : task[b] = "stalled"})
    /\ success_counts' = Append(success_counts, result[Head(doneq)])
    /\ completed_count' = completed_count + 1
    /\ doneq' = Tail(doneq)
    /\ commits' = commits + 1
    /\ LET fl == Flush(sess, db)
       IN  /\ sess' = fl.s
           /\ IF fl.raised
              THEN /\ pc' = "raised"
                   /\ ret' = -1
                   /\ db' = db
              ELSE /\ pc' = "returned"
                   /\ ret' = SumSeq(success_counts')
                   /\ db' = [trans |-> fl.s.trans, exs |-> fl.s.exs,
                             extrans |-> fl.s.extrans, lcs |-> fl.s.lcs,
                             level |-> fl.s.level]
    /\ UNCHANGED <<wsent, wvalid, wsub, pbVars, graphVars, runs, subtitle_id, batch_size,
                   sentence_tasks, chunks, task, sem, payload, outcome, resp, result,
                   faults, db0, requests>>

\* Lines 174-191: the last task is yielded, the loop ends, sum, session.commit(),
\* return.  A commit on a failed session, or whose flush fails, raises.
CollectLastAndCommit ==
    /\ pc = "running"
    /\ doneq # <<>>
    /\ completed_count + 1 = Len(chunks)
    /\ success_counts' = Append(success_counts, result[Head(doneq)])
    /\ completed_count' = completed_count + 1
    /\ doneq' = Tail(doneq)
    /\ commits' = commits + 1
    /\ LET fl == Flush(sess, db)
       IN  /\ sess' = fl.s
           /\ IF fl.raised
              THEN /\ pc' = "raised"
                   /\ ret' = -1
                   /\ db' = db
              ELSE /\ pc' = "returned"
                   /\ ret' = SumSeq(success_counts')
                   /\ db' = [trans |-> fl.s.trans, exs |-> fl.s.exs,
                             extrans |-> fl.s.extrans, lcs |-> fl.s.lcs,
                             level |-> fl.s.level]
    /\ UNCHANGED <<wsent, wvalid, wsub, pbVars, graphVars, runs, subtitle_id, batch_size,
                   sentence_tasks, chunks, task, sem, payload, outcome, resp, result,
                   faults, db0, requests>>

\* ---- the stores tried: words are created sentence by sentence, so the sentence
\* of a word never decreases with the word id; some words may be invalid.
StoreLayouts ==
    {f \in [Words -> Sentences] :
        /\ f[1] = 1
        /\ \A w \in Words \ {1} : f[w] \in {f[w - 1], f[w - 1] + 1}}
InvalidSets == {{}, {1}, Words}

pbIdle == /\ pb_chunk = <<>>
          /\ pb_out = NoPayload
graphIdle == /\ g_node = "off"
             /\ g_state = [retry_count |-> 0]
             /\ g_gen_calls = 0
             /\ g_loops = 0
             /\ g_verdicts = <<>>

RunIdle(n) ==
    /\ requests = n
    /\ db = EmptyDb
    /\ db0 = EmptyDb
    /\ pc = "idle"
    /\ runs = 0
    /\ subtitle_id = 0
    /\ batch_size = 0
    /\ sess = NewSession(EmptyDb)
    /\ sentence_tasks = <<>>
    /\ chunks = <<>>
    /\ task = <<>>
    /\ sem = SemaphoreLimit
    /\ payload = <<>>
    /\ outcome = <<>>
    /\ resp = <<>>
    /\ result = <<>>
    /\ doneq = <<>>
    /\ success_counts = <<>>
    /\ completed_count = 0
    /\ commits = 0
    /\ ret = -1
    /\ faults = 0

runIdle == RunIdle(1)

storeFixed ==
    /\ wsent = [w \in Words |-> 1]
    /\ wvalid = [w \in Words |-> TRUE]
    /\ wsub = [w \in Words |-> 1]

Init ==
    /\ wsent \in StoreLayouts
    /\ \E inv \in InvalidSets : wvalid = [w \in Words |-> w \notin inv]
    /\ wsub = [w \in Words |-> 1]
    /\ runIdle
    /\ pbIdle
    /\ graphIdle

Next ==
    \/ \E sid \in Subtitles, bs \in BatchSizes : EnhanceNoop(sid, bs)
    \/ \E sid \in Subtitles, bs \in BatchSizes : EnhanceStart(sid, bs)
    \/ \E b \in Batches : AcquireSlot(b)
    \/ \E b \in Batches : GenerationRaises(b)
    \/ \E b \in Batches : ParseRaises(b)
    \/ \E b \in Batches, kind \in ResponseKinds : GenerationReturns(b, kind, runs)
    \/ CollectNext
    \/ CollectLastAndCommit

Spec == Init /\ [][Next]_vars

\* ============================================================== properties of Spec
Calling == {b \in Batches : task[b] = "calling"}
Failed == {"gen_error", "parse_error", "save_error"}

RECURSIVE SumOver(_, _)
SumOver(f, S) ==
    IF S = {} THEN 0
    ELSE LET x == CHOOSE y \in S : TRUE IN f[x] + SumOver(f, S \ {x})

\* C1: at any moment of an enhance run at most 3 batch tasks are inside their
\* generation call, whatever the number of batches and the order of starts and
\* completions.
C1_AtMostThreeInFlight == Cardinality(Calling) <= 3

C1_Witness ==
    /\ Cardinality(Calling) = 3
    /\ \E b \in Batches : task[b] = "waiting"

\* What _save_v3_results returns for the response of batch b when no other
\* batch of the run has touched the session.
ReconciledAlone(b) ==
    SaveV3Results(NewSession(db0), db0, [run |-> runs, batch |-> b], chunks[b], resp[b])

\* C2: a batch whose call, parsing or reconciliation raises contributes 0, and
\* every other batch contributes the count its own response yields, as if the
\* failing batch had succeeded.
C2_FaultIsolated ==
    \A b \in Batches :
        task[b] = "done" =>
            /\ outcome[b] \in Failed => result[b] = 0
            /\ ( /\ \E a \in Batches \ {b} : outcome[a] \in Failed
                 /\ outcome[b] \notin {"gen_error", "parse_error"}
                 /\ ~ReconciledAlone(b).raised )
               => /\ outcome[b] = "ok"
                  /\ result[b] = ReconciledAlone(b).count

\* C3: in a run with at least one batch the commit is issued exactly once, after
\* every task has resolved and been counted; nothing is committed before.
C3_SingleFinalCommit ==
    chunks # <<>> =>
        /\ pc = "running" => commits = 0 /\ db = db0
        /\ pc \in {"returned", "raised"} => commits = 1
        /\ commits >= 1 => /\ completed_count = Len(chunks)
                           /\ \A b \in Batches : task[b] = "done"
                           /\ doneq = <<>>

C3_Witness ==
    /\ pc = "returned"
    /\ Len(chunks) >= 2
    /\ commits = 1
    /\ db # db0

\* C4: enhance returns the sum over all batches of the count each task returned
\* (0 for a failed batch), every batch counted once.
C4_ReturnsSumOfBatches ==
    pc = "returned" =>
        /\ ret = SumOver(result, Batches)
        /\ Len(success_counts) = Len(chunks)
        /\ \A b \in Batches : outcome[b] \in Failed => result[b] = 0

C4_Witness ==
    /\ pc = "returned"
    /\ Len(chunks) >= 3
    /\ \E b \in Batches : outcome[b] \in Failed
    /\ \E a, b \in Batches : a # b /\ result[a] > 0 /\ result[b] > 0

\* The subtitle sid has no valid word with a first-occurrence sentence.
NoCandidates(sid) ==
    ~\E w \in Words : wsub[w] = sid /\ wvalid[w] /\ wsent[w] \in Sentences

\* C5: when the fetch yields no candidate word, enhance returns 0 at once: no
\* task, no generation call, nothing added to the session, no commit, the store
\* as it was.
C5_NoCandidatesNoOp ==
    (pc # "idle" /\ NoCandidates(subtitle_id)) =>
        /\ pc = "returned"
        /\ ret = 0
        /\ chunks = <<>>
        /\ task = <<>>
        /\ payload = <<>>
        /\ commits = 0
        /\ sess = NewSession(db0)
        /\ db = db0

C5_Witness ==
    /\ pc = "returned"
    /\ subtitle_id = 1
    /\ NoCandidates(1)
    /\ ret = 0

\* C9: for batch_size >= 1 the chunks partition the fetched sentence tasks in
\* order: every sentence with all its words is in exactly one chunk, a chunk
\* holds at most batch_size sentences and all but the last exactly batch_size,
\* and no word is in two batches.
CandidateWordsOf(sid, s) ==
    {w \in Words : wsub[w] = sid /\ wvalid[w] /\ wsent[w] = s}

C9_ChunksPartitionSentences ==
    pc # "idle" =>
        /\ Flatten(chunks) = sentence_tasks
        /\ \A s \in Sentences :
              CandidateWordsOf(subtitle_id, s) # {} =>
                 \E k \in 1..Len(chunks) : \E t \in 1..Len(chunks[k]) :
                    /\ chunks[k][t].sentence_id = s
                    /\ Range(chunks[k][t].words) = CandidateWordsOf(subtitle_id, s)
                    /\ \A k2 \in 1..Len(chunks) : \A t2 \in 1..Len(chunks[k2]) :
                          chunks[k2][t2].sentence_id = s => (k2 = k /\ t2 = t)
        /\ \A k \in 1..Len(chunks) :
              /\ Len(chunks[k]) >= 1
              /\ Len(chunks[k]) <= batch_size
              /\ k < Len(chunks) => Len(chunks[k]) = batch_size
        /\ \A k1, k2 \in 1..Len(chunks) :
              k1 # k2 => Range(ChunkWordIds(chunks[k1])) \cap Range(ChunkWordIds(chunks[k2])) = {}
        /\ \A k \in 1..Len(chunks) :
              Cardinality(Range(ChunkWordIds(chunks[k]))) = Len(ChunkWordIds(chunks[k]))

C9_Witness ==
    /\ pc = "running"
    /\ batch_size = 2
    /\ Len(chunks) = 2
    /\ Len(chunks[1]) = 2
    /\ Len(chunks[2]) = 1
    /\ \E t \in 1..2 : Len(chunks[1][t].words) = 2

\* ============================================================== repeated runs
\* Two enhance requests, one after the other, on a subtitle with
\* MaxRerunWords valid words; the generation service may return any of the
\* response kinds; its texts in the second run repeat those of the first run
\* or are new.
RerunKinds == {"echo", "dup_trans", "dup_word", "trans_only", "no_exs",
               "unknown_s", "unknown_w", "unknown_g"}
Texts == {1, runs}

\* The batch sizes requested: the subtitle is cut into one or two batches.
RerunBatchSizes == {MaxBatchSize - 1, MaxBatchSize}

RerunLayouts ==
    {f \in StoreLayouts : \A w \in Words : w > MaxRerunWords => f[w] = f[MaxRerunWords]}

RerunInit ==
    /\ wsent \in RerunLayouts
    /\ wvalid = [w \in Words |-> w <= MaxRerunWords]
    /\ wsub = [w \in Words |-> 1]
    /\ RunIdle(2)
    /\ pbIdle
    /\ graphIdle

RerunNext ==
    \/ \E sid \in Subtitles, bs \in RerunBatchSizes : EnhanceNoop(sid, bs)
    \/ \E sid \in Subtitles, bs \in RerunBatchSizes : EnhanceFetchRaises(sid, bs)
    \/ \E sid \in Subtitles, bs \in RerunBatchSizes : EnhanceStart(sid, bs)
    \/ \E b \in Batches : AcquireSlot(b)
    \/ \E b \in Batches : GenerationRaises(b)
    \/ \E b \in Batches : ParseRaises(b)
    \/ \E b \in Batches, kind \in RerunKinds, txt \in Texts : GenerationReturns(b, kind, txt)
    \/ CollectNext
    \/ CollectLastAndCommit

SpecRerun == RerunInit /\ [][RerunNext]_vars

\* The same two requests when the generation service is a stub that echoes
\* every id of the request and never fails.
EchoNext ==
    \/ \E sid \in Subtitles, bs \in RerunBatchSizes : EnhanceNoop(sid, bs)
    \/ \E sid \in Subtitles, bs \in RerunBatchSizes : EnhanceStart(sid, bs)
    \/ \E b \in Batches : AcquireSlot(b)
    \/ \E b \in Batches, txt \in Texts : GenerationReturns(b, "echo", txt)
    \/ CollectNext
    \/ CollectLastAndCommit

SpecEcho == RerunInit /\ [][EchoNext]_vars

\* ---- properties of SpecRerun
\* The rows of a table that belong to sentence s, to word w.
RowsOfSentence(rows, s) == SelectSeq(rows, LAMBDA r : r.sid = s)
RowsOfWord(rows, w) == SelectSeq(rows, LAMBDA r : r.wid = w)

\* Batch b has run _save_v3_results (to its end or to an exception).
Reconciled(b) == task[b] = "done" /\ outcome[b] \in {"ok", "save_error"}

\* The text of the last translation entry of response r for sentence s.
LatestText(r, s) ==
    LET hit == SelectSeq(r.trans, LAMBDA t : t.s_id = s)
    IN  hit[Len(hit)].tr_ko

\* C14: when a sentence has a committed translation from the first run and the
\* second run reconciles a response that translates it again, the second
\* reconciliation updates that row and inserts none: the store keeps exactly
\* one row for the sentence, which holds the response's text when the response
\* repeats the first run's and whenever the second run commits.
C14_TranslationUpsert ==
    \A b \in Batches : \A s \in Range(ChunkSentenceIds(chunks[b])) :
        ( /\ runs = 2
          /\ Reconciled(b)
          /\ \E i \in 1..Len(resp[b].trans) : resp[b].trans[i].s_id = s
          /\ Len(RowsOfSentence(db0.trans, s)) = 1 )
        => /\ Len(RowsOfSentence(db.trans, s)) = 1
           /\ RowsOfSentence(sess.ptrans, s) = <<>>
           /\ sess.active =>
                 /\ Len(RowsOfSentence(sess.trans, s)) = 1
                 /\ RowsOfSentence(sess.trans, s)[1].text = LatestText(resp[b], s)
           /\ (pc = "returned" \/ RowsOfSentence(db0.trans, s)[1].text = LatestText(resp[b], s))
                 => RowsOfSentence(db.trans, s)[1].text = LatestText(resp[b], s)

C14_Witness ==
    /\ runs = 2
    /\ pc = "returned"
    /\ \E b \in Batches : \E s \in Range(ChunkSentenceIds(chunks[b])) :
          /\ Reconciled(b)
          /\ Len(RowsOfSentence(db0.trans, s)) = 1
          /\ RowsOfSentence(db0.trans, s)[1].text = 1
          /\ RowsOfSentence(db.trans, s) = <<[sid |-> s, text |-> 2,
                                              src |-> [run |-> 2, batch |-> b]]>>

\* C15: whatever the responses, the store (and the open transaction) holds at
\* most one translation row per sentence for language "ko".
C15_OneTranslationPerSentence ==
    \A s \in Sentences :
        /\ Len(RowsOfSentence(db.trans, s)) <= 1
        /\ Len(RowsOfSentence(sess.trans, s)) <= 1

C15_Witness ==
    /\ runs = 2
    /\ db.trans # <<>>
    /\ \E b \in Batches :
          /\ outcome[b] = "save_error"
          /\ \E i, j \in 1..Len(resp[b].trans) :
                i # j /\ resp[b].trans[i].s_id = resp[b].trans[j].s_id

\* C16: whatever the runs and the responses, the store (and the open
\* transaction) holds at most one learning-content row per word.
C16_OneLearningContentPerWord ==
    \A w \in Words :
        /\ Len(RowsOfWord(db.lcs, w)) <= 1
        /\ Len(RowsOfWord(sess.lcs, w)) <= 1

C16_Witness ==
    /\ runs = 2
    /\ pc \in {"returned", "raised"}
    /\ \E w \in Words : Len(RowsOfWord(db0.lcs, w)) = 1
    /\ \E b \in Batches : \E i \in 1..Len(resp[b].words) :
          /\ Reconciled(b)
          /\ Len(RowsOfWord(db0.lcs, resp[b].words[i].w_id)) = 1

\* The ids of the request of a batch.
ReqSentences(p) == {p.data[i].id : i \in 1..Len(p.data)}
ReqWords(p) == UNION {Range(p.data[i].words) : i \in 1..Len(p.data)}
ReqGids(p) == {p.groups[g].gid : g \in 1..Len(p.groups)}

\* The provenance of the rows batch b writes in the current run.
ThisSrc(b) == [run |-> runs, batch |-> b]

\* C17: every learning-content row created in the current run for a word w
\* references an example created by the same batch for a group of that
\* batch's request whose member ids contain w.
C17_ContentReferencesOwnGroup ==
    LET rows == sess.lcs \o sess.plcs
    IN  \A i \in 1..Len(rows) :
          rows[i].src.run = runs =>
             LET e == sess.exs[rows[i].ex]
                 groups == payload[rows[i].src.batch].groups
             IN  /\ e.src = rows[i].src
                 /\ \E g \in 1..Len(groups) :
                       /\ groups[g].gid = e.gid
                       /\ rows[i].wid \in Range(groups[g].wids)

\* Response r without the entries whose id the request p does not contain.
KnownPart(p, r) ==
    [trans |-> SelectSeq(r.trans, LAMBDA t : t.s_id \in ReqSentences(p)),
     words |-> SelectSeq(r.words, LAMBDA d : d.w_id \in ReqWords(p)),
     exs   |-> SelectSeq(r.exs, LAMBDA ex : ex.gid \in ReqGids(p))]

\* C18: a response entry whose sentence id, word id or group id is not in the
\* batch's request leaves no record (no translation row, no level, no
\* learning-content row, no example row), and the batch fails only if it fails
\* without those entries too.
C18_UnknownRefsDropped ==
    \A b \in Batches :
        Reconciled(b) =>
          LET p == payload[b]
              r == resp[b]
              trows == sess.trans \o sess.ptrans
              lrows == sess.lcs \o sess.plcs
              erows == sess.exs \o sess.pexs
          IN  /\ \A i \in 1..Len(r.trans) :
                    r.trans[i].s_id \notin ReqSentences(p) =>
                       ~\E k \in 1..Len(trows) : /\ trows[k].sid = r.trans[i].s_id
                                                  /\ trows[k].src = ThisSrc(b)
              /\ \A i \in 1..Len(r.words) :
                    r.words[i].w_id \notin ReqWords(p) =>
                       /\ ~\E k \in 1..Len(lrows) : /\ lrows[k].wid = r.words[i].w_id
                                                     /\ lrows[k].src = ThisSrc(b)
                       /\ r.words[i].w_id \in Words =>
                             sess.level[r.words[i].w_id] # r.words[i].lv
              /\ \A i \in 1..Len(r.exs) :
                    r.exs[i].gid \notin ReqGids(p) =>
                       ~\E k \in 1..Len(erows) : /\ erows[k].gid = r.exs[i].gid
                                                  /\ erows[k].src = ThisSrc(b)
              /\ (Len(chunks) = 1 /\ outcome[b] = "save_error") =>
                    SaveV3Results(NewSession(db0), db0, ThisSrc(b), chunks[b],
                                  KnownPart(p, r)).raised

\* C19: when the service echoes every id of the request, the reconciliation of
\* a batch loses nothing: it returns the number of words of the batch, every
\* sentence of the batch has its translation with the response's text, every
\* word has its level set and exactly one learning-content row, which
\* references the example this batch created for the word's own group.
C19_EchoLosesNothing ==
    [][\A b \in Batches : \A txt \in Texts :
          ( /\ task[b] = "calling"
            /\ task'[b] = "done"
            /\ resp'[b] = Response(payload[b], "echo", txt) )
          => /\ outcome'[b] = "ok"
             /\ result'[b] = Len(ChunkWordIds(chunks[b]))
             /\ \A s \in ReqSentences(payload[b]) :
                   LET rows == RowsOfSentence(sess'.trans \o sess'.ptrans, s)
                   IN  Len(rows) = 1 /\ rows[1].text = txt
             /\ \A w \in ReqWords(payload[b]) :
                   LET rows == RowsOfWord(sess'.lcs \o sess'.plcs, w)
                   IN  /\ sess'.level[w] = "N3"
                       /\ Len(rows) = 1
                       /\ rows[1].src = ThisSrc(b)
                       /\ \E g \in 1..Len(payload[b].groups) :
                             /\ w \in Range(payload[b].groups[g].wids)
                             /\ sess'.exs[rows[1].ex].gid = payload[b].groups[g].gid
                             /\ sess'.exs[rows[1].ex].src = ThisSrc(b)
      ]_vars

\* C20: a run whose fetch succeeded never ends by raising: enhance returns a
\* count.
C20_EnhanceNeverRaises == pc # "raised"

\* C21: when the fetch of the candidate words fails, enhance raises before any
\* batch starts: no chunk, no task, no payload and no generation call exist,
\* nothing is added to the session, no commit is issued and the store is as it
\* was.
C21_FetchFailureAbortsBeforeBatches ==
    pc = "fetch_raised" =>
        /\ ret = -1
        /\ sentence_tasks = <<>>
        /\ chunks = <<>>
        /\ task = <<>>
        /\ payload = <<>>
        /\ resp = <<>>
        /\ sem = SemaphoreLimit
        /\ commits = 0
        /\ sess = NewSession(db0)
        /\ db = db0

C21_Witness ==
    /\ pc = "fetch_raised"
    /\ runs = 2
    /\ subtitle_id = 1
    /\ db.lcs # <<>>

\* ============================================================== _build_ai_payload alone
\* The chunks tried: 1..MaxChunkSentences sentences of 1..MaxSentenceWords words,
\* word and sentence ids numbered upwards or downwards.
ChunkShapes ==
    UNION {[1..k -> 1..MaxSentenceWords] : k \in 1..MaxChunkSentences}

ChunkOf(lens, down) ==
    LET base(t) == SumSeq(SubSeq(lens, 1, t - 1))
        total == SumSeq(lens)
    IN  [t \in 1..Len(lens) |->
           [sentence_id |-> IF down THEN Len(lens) + 1 - t ELSE t,
            words |-> [j \in 1..lens[t] |->
                          IF down THEN total + 1 - (base(t) + j) ELSE base(t) + j]]]

PayloadInit ==
    /\ storeFixed
    /\ runIdle
    /\ graphIdle
    /\ \E lens \in ChunkShapes, down \in BOOLEAN : pb_chunk = ChunkOf(lens, down)
    /\ pb_out = NoPayload

PayloadBuild ==
    /\ pb_out = NoPayload
    /\ pb_out' = BuildAiPayload(pb_chunk)
    /\ UNCHANGED <<storeVars, runVars, graphVars, pb_chunk>>

PayloadNext == PayloadBuild

SpecPayload == PayloadInit /\ [][PayloadNext]_vars

PbBuilt == pb_out # NoPayload
PbWordIds == ChunkWordIds(pb_chunk)
PbGroups == pb_out.groups

\* C6: the groups partition the word ids of a non-empty batch: their union is the
\* batch's id set, every id is in exactly one group, every group has 1 to 3
\* members.
C6_GroupsPartitionWords ==
    PbBuilt =>
        /\ UNION {Range(PbGroups[g].wids) : g \in 1..Len(PbGroups)} = Range(PbWordIds)
        /\ \A w \in Range(PbWordIds) :
              Cardinality({<<g, i>> \in (1..Len(PbGroups)) \X (1..GroupSize) :
                              i <= Len(PbGroups[g].wids) /\ PbGroups[g].wids[i] = w}) = 1
        /\ \A g \in 1..Len(PbGroups) :
              Len(PbGroups[g].wids) >= 1 /\ Len(PbGroups[g].wids) <= 3

C6_Witness ==
    /\ PbBuilt
    /\ Len(PbGroups) = 3
    /\ Len(PbGroups[3].wids) = 1
    /\ Len(pb_chunk) = 3

\* The reference construction: round-robin over the sentences' word queues,
\* then consecutive blocks of 3 numbered from 1.
RECURSIVE RoundRobin(_)
RoundRobin(queues) ==
    LET live == SelectSeq(queues, LAMBDA q : q # <<>>)
    IN  IF live = <<>> THEN <<>>
        ELSE [k \in 1..Len(live) |-> Head(live[k])]
             \o RoundRobin([k \in 1..Len(live) |-> Tail(live[k])])

RECURSIVE Blocks(_, _)
Blocks(ids, n) ==
    IF ids = <<>> THEN <<>>
    ELSE IF Len(ids) <= 3 THEN <<[gid |-> n, wids |-> ids]>>
    ELSE <<[gid |-> n, wids |-> SubSeq(ids, 1, 3)]>>
         \o Blocks(SubSeq(ids, 4, Len(ids)), n + 1)

ReferenceGroups(chunk) ==
    Blocks(RoundRobin([t \in 1..Len(chunk) |-> chunk[t].words]), 1)

\* S1 with words A, B, C (1, 2, 3) and S2 with words D, E (4, 5).
ScenarioChunk ==
    <<[sentence_id |-> 1, words |-> <<1, 2, 3>>], [sentence_id |-> 2, words |-> <<4, 5>>]>>

\* C7: the groups are those of the reference construction; for S1 = A,B,C and
\* S2 = D,E they are [A,D,B] and [E,C].
C7_GroupsMatchReference ==
    PbBuilt =>
        /\ PbGroups = ReferenceGroups(pb_chunk)
        /\ pb_chunk = ScenarioChunk =>
              PbGroups = <<[gid |-> 1, wids |-> <<1, 4, 2>>], [gid |-> 2, wids |-> <<5, 3>>]>>

C7_Witness ==
    /\ PbBuilt
    /\ pb_chunk = ScenarioChunk

PbSentenceOf(w) ==
    {t \in 1..Len(pb_chunk) : w \in Range(pb_chunk[t].words)}

\* C8: when at least two sentences contribute words, group 1 holds words of more
\* than one sentence.
C8_FirstGroupSpansSentences ==
    (PbBuilt /\ Len(pb_chunk) >= 2) =>
        Cardinality(UNION {PbSentenceOf(w) : w \in Range(PbGroups[1].wids)}) >= 2

C8_Witness ==
    /\ PbBuilt
    /\ Len(pb_chunk) = 2
    /\ Len(pb_chunk[1].words) = 3
    /\ PbGroups[1].gid = 1

\* ============================================================== the retry graph
\* AgentState: selected_words, word_entries, retry_count, error ("unset": the
\* key is absent, "none": None).  An entry records whether its meaning and its
\* example are present and non-empty.
EntryKinds == {[meaning |-> TRUE, example |-> TRUE],
               [meaning |-> FALSE, example |-> TRUE],
               [meaning |-> TRUE, example |-> FALSE]}
GenOutputs == UNION {[1..n -> EntryKinds] : n \in 0..MaxEntries}
ExtractOutputs == {[i \in 1..n |-> i] : n \in 1..MaxEntries}

\* app/main.py: initial_state = {"subtitle_raw": ..., "retry_count": 0}
GraphInit ==
    /\ storeFixed
    /\ runIdle
    /\ pbIdle
    /\ g_node = "extract"
    /\ g_state = [selected_words |-> <<>>, word_entries |-> <<>>,
                  retry_count |-> 0, error |-> "unset"]
    /\ g_gen_calls = 0
    /\ g_loops = 0
    /\ g_verdicts = <<>>

\* extract_words: return {"selected_words": words, "retry_count": 0}
Extract(words) ==
    /\ g_node = "extract"
    /\ g_state' = [g_state EXCEPT !.selected_words = words, !.retry_count = 0]
    /\ g_node' = "generate"
    /\ UNCHANGED <<storeVars, runVars, pbVars, g_gen_calls, g_loops, g_verdicts>>

\* extract_words: chain.invoke raises; nothing catches it and the run aborts.
ExtractRaises ==
    /\ g_node = "extract"
    /\ g_node' = "raised"
    /\ UNCHANGED <<storeVars, runVars, pbVars, g_state, g_gen_calls, g_loops, g_verdicts>>

\* generate_content: return {"word_entries": results}
Generate(entries) ==
    /\ g_node = "generate"
    /\ g_state' = [g_state EXCEPT !.word_entries = entries]
    /\ g_gen_calls' = g_gen_calls + 1
    /\ g_node' = "validate"
    /\ UNCHANGED <<storeVars, runVars, pbVars, g_loops, g_verdicts>>

\* generate_content: chain.invoke raises; nothing catches it and the run aborts.
GenerateRaises ==
    /\ g_node = "generate"
    /\ g_gen_calls' = g_gen_calls + 1
    /\ g_node' = "raised"
    /\ UNCHANGED <<storeVars, runVars, pbVars, g_state, g_loops, g_verdicts>>

\* validate_result: the update it returns, merged into the state.
\* (faulty variants first: an empty result counts as two attempts; the
\* `if not entries' check is missing)
ValidateResultDoubleCount(state) ==
    IF state.word_entries = <<>>
    THEN [state EXCEPT !.error = "empty", !.retry_count = state.retry_count + 2]
    ELSE IF \E i \in 1..Len(state.word_entries) :
               ~state.word_entries[i].meaning \/ ~state.word_entries[i].example
         THEN [state EXCEPT !.error = "missing", !.retry_count = state.retry_count + 1]
         ELSE [state EXCEPT !.error = "none"]
ValidateResultEmptyPasses(state) ==
    IF \E i \in 1..Len(state.word_entries) :
               ~state.word_entries[i].meaning \/ ~state.word_entries[i].example
    THEN [state EXCEPT !.error = "missing", !.retry_count = state.retry_count + 1]
    ELSE [state EXCEPT !.error = "none"]
ValidateResult(state) ==
    IF state.word_entries = <<>>
    THEN [state EXCEPT !.error = "empty", !.retry_count = state.retry_count + 1]
    ELSE IF \E i \in 1..Len(state.word_entries) :
               ~state.word_entries[i].meaning \/ ~state.word_entries[i].example
         THEN [state EXCEPT !.error = "missing", !.retry_count = state.retry_count + 1]
         ELSE [state EXCEPT !.error = "none"]

\* decide_next_node
\* (faulty variants first: retry while retry_count <= 3; while retry_count < 2)
DecideNextNodeInclusive(state) ==
    IF state.error # "none" /\ state.retry_count <= RetryLimit THEN "retry" ELSE "end"
DecideNextNodeEarly(state) ==
    IF state.error # "none" /\ state.retry_count < RetryLimit - 1 THEN "retry" ELSE "end"
DecideNextNode(state) ==
    IF state.error # "none" /\ state.retry_count < RetryLimit THEN "retry" ELSE "end"

\* add_conditional_edges("validate", decide_next_node, {"retry": "generate", "end": END})
\* (faulty variant first: the "end" label leads to no node, the run hangs)
EdgeTargetNoEnd(label) == IF label = "retry" THEN "generate" ELSE "off"
EdgeTarget(label) == IF label = "retry" THEN "generate" ELSE "end"

\* The validate node followed by its conditional edge.
Validate ==
    /\ g_node = "validate"
    /\ g_state' = ValidateResult(g_state)
    /\ g_verdicts' = Append(g_verdicts, g_state'.error)
    /\ g_node' = EdgeTarget(DecideNextNode(g_state'))
    /\ g_loops' = IF g_node' = "generate" THEN g_loops + 1 ELSE g_loops
    /\ UNCHANGED <<storeVars, runVars, pbVars, g_gen_calls>>

GraphNext ==
    \/ \E words \in ExtractOutputs : Extract(words)
    \/ ExtractRaises
    \/ \E entries \in GenOutputs : Generate(entries)
    \/ GenerateRaises
    \/ Validate

SpecGraph == GraphInit /\ [][GraphNext]_vars

\* graph.invoke runs the nodes one after the other on the caller's thread: a
\* node that is next is executed, and it returns or raises.
SpecGraphLive ==
    /\ GraphInit
    /\ [][GraphNext]_vars
    /\ WF_vars(ExtractRaises \/ \E words \in ExtractOutputs : Extract(words))
    /\ WF_vars(GenerateRaises \/ \E entries \in GenOutputs : Generate(entries))
    /\ WF_vars(Validate)

\* C10: in a run started through Extract, Generate is executed at most 3 times
\* and the retry counter always lies between 0 and 3.
C10_AtMostThreeGenerations ==
    /\ g_gen_calls <= 3
    /\ g_state.retry_count >= 0
    /\ g_state.retry_count <= 3

C10_Witness ==
    /\ g_node = "end"
    /\ g_gen_calls = 3
    /\ g_state.retry_count = 3
    /\ g_state.error # "none"

\* Every Validate step of the run so far has failed.
AllValidatesFailed ==
    /\ g_verdicts # <<>>
    /\ \A i \in 1..Len(g_verdicts) : g_verdicts[i] # "none"

\* C11 as stated: a run in which every Validate fails ends after exactly 3
\* loop-backs from Validate to Generate, and a 4th is never taken.
C11_EndsAfterThreeLoopBacks ==
    /\ g_loops <= 3
    /\ (g_node = "end" /\ AllValidatesFailed) => g_loops = 3

\* C11 amended: a run in which every Validate fails ends after exactly 3
\* Generate attempts, that is 2 loop-backs from Validate to Generate, with the
\* retry counter at 3; the loop-back is never taken a 3rd time.
C11_EndsAfterThreeAttempts ==
    /\ g_loops <= 2
    /\ (g_node = "end" /\ AllValidatesFailed) =>
          /\ g_loops = 2
          /\ g_gen_calls = 3
          /\ Len(g_verdicts) = 3
          /\ g_state.retry_count = 3

C11_Witness ==
    /\ g_node = "end"
    /\ AllValidatesFailed
    /\ Len(g_verdicts) = 3
    /\ g_loops = 2

\* What the Validate step checks: the entries are non-empty and each carries a
\* meaning and an example.
EntriesValid(entries) ==
    /\ entries # <<>>
    /\ \A i \in 1..Len(entries) : entries[i].meaning /\ entries[i].example

\* C12: after every Validate step the next node is Generate exactly when an
\* error is set and the retry counter is below 3, and End otherwise; a run ends
\* with the error unset exactly when its last Validate passed, and otherwise
\* with the error its last Validate recorded.
C12_TransitionRule ==
    /\ [][g_node = "validate" =>
             IF g_state'.error # "none" /\ g_state'.retry_count < 3
             THEN g_node' = "generate"
             ELSE g_node' = "end"]_vars
    /\ [](g_node = "end" =>
             /\ g_state.error = "none" <=> EntriesValid(g_state.word_entries)
             /\ g_state.error = g_verdicts[Len(g_verdicts)]
             /\ g_state.word_entries = <<>> => g_state.error = "empty")

C12_Witness ==
    /\ g_node = "generate"
    /\ g_state.error = "missing"
    /\ g_state.retry_count = 2

\* C13: every run whose node invocations all return reaches End, whatever the
\* validation outcomes.
C13_EventuallyEnd ==
    [](g_node # "raised") => <>(g_node = "end")

C13_Witness ==
    /\ g_node = "end"
    /\ Len(g_verdicts) = 2
    /\ g_verdicts[1] # "none"
    /\ g_verdicts[2] = "none"

\* C22: a fault of the generation call inside Generate is not raised: every
\* Generate step, faulting or not, hands the run to Validate.
C22_GenerateFaultRecorded ==
    [][g_node = "generate" => g_node' = "validate"]_vars

\* C23: a run selects exactly the valid words of the subtitle whose level is
\* still "WAIT" when the run starts; a word whose level an earlier committed
\* run has set is not selected again.
C23_OnlyPendingSelected ==
    pc \in {"running", "returned", "raised"} =>
        Range(ChunkWordIds(sentence_tasks)) =
            {w \in Words : /\ wsub[w] = subtitle_id
                           /\ wvalid[w]
                           /\ db0.level[w] = "WAIT"}

\* C24: a word definition of the response whose id is not in the request, or
\* whose id is a member of no example group of the response, is skipped: the
\* batch creates no learning-content row for it and the word keeps the level it
\* had when the run started, so it is still pending.
C24_SkippedWordStaysPending ==
    \A b \in Batches :
        (Reconciled(b) /\ outcome[b] = "ok") =>
           \A i \in 1..Len(resp[b].words) :
              LET d == resp[b].words[i]
                  rows == sess.lcs \o sess.plcs
                  unknown == d.w_id \notin ReqWords(payload[b])
                  grouped == \E k \in 1..Len(resp[b].exs) :
                                d.w_id \in Range(resp[b].exs[k].wids)
              IN  (unknown \/ ~grouped) =>
                     /\ ~\E k \in 1..Len(rows) : /\ rows[k].wid = d.w_id
                                                   /\ rows[k].src = ThisSrc(b)
                     /\ (unknown /\ d.w_id \in Words) => sess.level[d.w_id] # d.lv
                     /\ ~unknown => sess.level[d.w_id] = db0.level[d.w_id]

\* ---- completion order
\* The session and the sum of the counts when the batches of the run are
\* reconciled one after the other in the given order, each with the response
\* (or the call or parse fault) it had in the run.
RECURSIVE ReconcileInOrder(_, _)
ReconcileInOrder(order, acc) ==
    IF order = <<>> THEN acc
    ELSE LET b == Head(order)
             sv == SaveV3Results(acc.s, db0, ThisSrc(b), chunks[b], resp[b])
         IN  IF outcome[b] \in {"gen_error", "parse_error"}
             THEN ReconcileInOrder(Tail(order), acc)
             ELSE ReconcileInOrder(Tail(order),
                     [s |-> sv.s,
                      total |-> acc.total + IF sv.raised THEN 0 ELSE sv.count])

\* What a caller can observe of a store: the text per sentence, the level and
\* the meaning per word.
Visible(dbv) ==
    [text |-> {<<dbv.trans[i].sid, dbv.trans[i].text>> : i \in 1..Len(dbv.trans)},
     level |-> dbv.level,
     meaning |-> {<<dbv.lcs[i].wid, dbv.lcs[i].meaning>> : i \in 1..Len(dbv.lcs)}]

\* The end of the run when its batches complete in the order of their index.
OutcomeInIndexOrder ==
    LET acc == ReconcileInOrder(Indices(Len(chunks)),
                                [s |-> NewSession(db0), total |-> 0])
        fl == Flush(acc.s, db0)
    IN  IF fl.raised
        THEN [pc |-> "raised", ret |-> -1, store |-> Visible(db0)]
        ELSE [pc |-> "returned", ret |-> acc.total, store |-> Visible(fl.s)]

\* C25: with the response (or fault) of every batch fixed, the end of an
\* enhance run is the same for every completion order of the batch tasks: the
\* run returns or raises, returns the same count and leaves the same text per
\* sentence and the same level and meaning per word as when the tasks
\* complete in the order of their index.
C25_CompletionOrderIrrelevant ==
    (pc \in {"returned", "raised"} /\ chunks # <<>>) =>
        /\ pc = OutcomeInIndexOrder.pc
        /\ ret = OutcomeInIndexOrder.ret
        /\ Visible(db) = OutcomeInIndexOrder.store

C25_Witness ==
    /\ pc = "returned"
    /\ ret > 0
    /\ Len(chunks) >= 3
    /\ db.exs[1].src.batch = Len(chunks)
    /\ \E k \in 1..Len(db.exs) : db.exs[k].src.batch = 1
    /\ \E b \in Batches : outcome[b] \in {"gen_error", "parse_error"}

\* ---- the session of the run
\* The rows of session s, flushed or pending, that carry a provenance.
SessionRows(s) == s.trans \o s.ptrans \o s.exs \o s.pexs \o s.lcs \o s.plcs

\* Batch b runs _save_v3_results in this step.
Reconciles(b) ==
    /\ task[b] = "calling"
    /\ task'[b] = "done"
    /\ outcome'[b] \in {"ok", "save_error"}

C27_ReconciliationUninterrupted ==
    /\ [][(pc = "running" /\ pc' = "running" /\ (sess' # sess \/ resp' # resp)) =>
             \E b \in Batches :
                /\ task[b] = "calling"
                /\ task'[b] = "done"
                /\ outcome'[b] \in {"ok", "save_error"}
                /\ sem' = sem + 1
                /\ \A a \in Batches \ {b} :
                      /\ task'[a] = task[a]
                      /\ payload'[a] = payload[a]
                      /\ resp'[a] = resp[a]
                      /\ result'[a] = result[a]
          ]_vars
    /\ [](pc = "running" =>
             /\ \A b \in Batches : resp[b] # NoResponse => task[b] = "done"
             /\ sem = SemaphoreLimit - Cardinality(Calling))

C27_Witness ==
    /\ pc = "running"
    /\ sess.active
    /\ Cardinality(Calling) = 2
    /\ \E a, b \in Batches :
          /\ a < b
          /\ outcome[b] = "ok"
          /\ task[a] = "calling"
    /\ \E c \in Batches : task[c] = "waiting"

\* C28: the count a reconciliation returns is the number of distinct words of
\* the batch for which it created a learning-content row, hence at most the
\* number of candidate words of the batch.
C28_CountIsDistinctWords ==
    [][\A b \in Batches :
          (Reconciles(b) /\ outcome'[b] = "ok") =>
             LET rows == sess'.lcs \o sess'.plcs
             IN  /\ result'[b] =
                       Cardinality({w \in Words :
                                      \E k \in 1..Len(rows) : /\ rows[k].wid = w
                                                               /\ rows[k].src = ThisSrc(b)})
                 /\ result'[b] <= Len(ChunkWordIds(chunks[b]))
      ]_vars

\* C29: a Validate step sets an error and adds exactly 1 to the retry counter
\* when the generated entries are empty or an entry lacks its meaning or its
\* example; otherwise it clears the error and leaves the counter as it was.
\* Either way the word list and the generated entries stay as they were.
C29_ValidateEffect ==
    [][g_node = "validate" =>
          /\ IF EntriesValid(g_state.word_entries)
             THEN /\ g_state'.error = "none"
                  /\ g_state'.retry_count = g_state.retry_count
             ELSE /\ g_state'.error \in {"empty", "missing"}
                  /\ g_state'.retry_count = g_state.retry_count + 1
          /\ g_state'.selected_words = g_state.selected_words
          /\ g_state'.word_entries = g_state.word_entries
      ]_vars

C29_Witness ==
    /\ g_node = "end"
    /\ g_state.retry_count = 2
    /\ g_state.error = "none"
    /\ g_verdicts = <<"empty", "missing", "none">>

\* ============================================================== stalled calls
\* One enhance run in which a generation call may never return; the service
\* echoes the request or the call raises.  The event
\* loop runs every task that can run: a waiting task enters a free slot, a
\* call in flight returns, raises or is stalled for ever, and the loop of
\* enhance_words_hybrid takes every finished task.
StallInit ==
    /\ wsent \in StoreLayouts
    /\ wvalid = [w \in Words |-> TRUE]
    /\ wsub = [w \in Words |-> 1]
    /\ runIdle
    /\ pbIdle
    /\ graphIdle

CallResolves(b) ==
    /\ b \in Batches
    /\ \/ GenerationStalls(b)
       \/ GenerationRaises(b)
       \/ GenerationReturns(b, "echo", runs)

SlotTaken(b) == b \in Batches /\ AcquireSlot(b)

StallNext ==
    \/ \E sid \in Subtitles, bs \in BatchSizes : EnhanceNoop(sid, bs)
    \/ \E sid \in Subtitles, bs \in BatchSizes : EnhanceStart(sid, bs)
    \/ \E b \in Batches : AcquireSlot(b)
    \/ \E b \in Batches : GenerationRaises(b)
    \/ \E b \in Batches : GenerationReturns(b, "echo", runs)
    \/ \E b \in Batches : GenerationStalls(b)
    \/ CollectNext
    \/ CollectLastAndCommit

SpecStall ==
    /\ StallInit
    /\ [][StallNext]_vars
    /\ \A b \in Words : WF_vars(SlotTaken(b))
    /\ \A b \in Words : WF_vars(CallResolves(b))
    /\ WF_vars(CollectNext)
    /\ WF_vars(CollectLastAndCommit)

Stalled == {b \in Batches : task[b] = "stalled"}

\* C30: a call that never returns keeps its slot and blocks nothing else.
\* While fewer than 3 calls are stalled every other batch gets a slot and is
\* processed to its end; but from the first stalled call on the run stays
\* running for ever: no commit, nothing committed, no return.
C30_StalledCallBlocksOnlyItsSlot ==
    /\ [](pc = "running" =>
             sem = SemaphoreLimit - Cardinality(Calling) - Cardinality(Stalled))
    /\ [][\A b \in Batches : task[b] = "stalled" =>
                /\ pc' = "running"
                /\ task'[b] = "stalled"
                /\ commits' = 0
                /\ db' = db0
                /\ ret' = -1]_vars
    /\ (Stalled # {}) ~> (\/ Cardinality(Stalled) >= 3
                          \/ /\ \A b \in Batches : task[b] \in {"done", "stalled"}
                             /\ doneq = <<>>)

C30_Witness ==
    /\ Cardinality(Stalled) = 2
    /\ Len(chunks) = 4
    /\ task[1] = "stalled"
    /\ task[2] = "stalled"
    /\ outcome[3] = "ok"
    /\ outcome[4] = "ok"
    /\ completed_count = 2
    /\ sess.plcs # <<>> \/ sess.lcs # <<>>

\* ============================================================== ai_word_service.py
\* The service that app/api/main.py constructs for POST /subtitles/{id}/enhance.
\* Lines 269-276: the rows of the valid words of the subtitle whose level is
\* "WAIT", each with the id of its first-occurrence sentence (wsent).
V1FetchRows(sid) ==
    SelectSeq([w \in 1..NumWords |-> w],
              LAMBDA w : /\ wsub[w] = sid
                         /\ wvalid[w]
                         /\ wsent[w] \in Sentences
                         /\ db.level[w] = "WAIT")

\* _create_interleaved_payload: contexts numbered from 1 in first-seen order,
\* id_mapping from the context number to the sentence id, the words taken
\* round-robin from the sentences' buckets and cut into groups of 3.
CreateInterleavedPayload(chunk) ==
    LET buckets == GroupRows(chunk, <<>>)
        ctx(w) == CHOOSE t \in 1..Len(buckets) : buckets[t].sentence_id = wsent[w]
        groups == GroupsOf(Interleave(buckets))
    IN  [payload |->
           [contexts |-> [t \in 1..Len(buckets) |-> [id |-> t]],
            word_groups |->
               [g \in 1..Len(groups) |->
                  [group_id |-> groups[g].gid,
                   words |-> [k \in 1..Len(groups[g].wids) |->
                                [word_id |-> groups[g].wids[k],
                                 context_id |-> ctx(groups[g].wids[k])]]]]],
         context_mapping |-> [t \in 1..Len(buckets) |-> buckets[t].sentence_id]]

\* What PydanticOutputParser(AIWordEnhanceResponseV4) yields for an answer that
\* echoes every id of the request p: a translation per context, a definition
\* per word, an example per group.
V1EchoResponse(p, txt) ==
    LET groups == p.payload.word_groups
        members(g) == [k \in 1..Len(groups[g].words) |-> groups[g].words[k].word_id]
        ids == Flatten([g \in 1..Len(groups) |-> members(g)])
    IN  [trans |-> [t \in 1..Len(p.payload.contexts) |->
                      [s_id |-> p.payload.contexts[t].id, tr_ko |-> txt]],
         words |-> [i \in 1..Len(ids) |-> [w_id |-> ids[i], m |-> txt, lv |-> "N3"]],
         exs |-> [g \in 1..Len(groups) |->
                    [gid |-> groups[g].group_id, wids |-> members(g),
                     ex_ja |-> txt, ex_ko |-> txt]]]

\* Lines 222-230: a translation row is added for every entry whose context_id
\* is in context_mapping.
RECURSIVE SaveResultsTrans(_, _, _, _)
SaveResultsTrans(s, src, mapping, trans) ==
    IF trans = <<>> THEN s
    ELSE LET t == Head(trans)
         IN  IF t.context_id \notin DOMAIN mapping
             THEN SaveResultsTrans(s, src, mapping, Tail(trans))
             ELSE SaveResultsTrans(
                     [s EXCEPT !.ptrans = Append(@, [sid |-> mapping[t.context_id],
                                                     text |-> t.translation_ko,
                                                     src |-> src])],
                     src, mapping, Tail(trans))

\* def _save_results(self, session, chunk, ai_data, context_mapping)
SaveResultsParams == {"session", "chunk", "ai_data", "context_mapping"}

\* A call of _save_results with the arguments `given' (parameter name -> value).
\* A call that leaves a parameter without value raises TypeError before the
\* body runs; the body reads ai_data.subtitle_translations, .examples and
\* .word_definitions (AttributeError on an object without them), then works
\* like _save_v3_results without the lookup of existing translations.
SaveResults(dbv, src, given) ==
    IF ~(SaveResultsParams \subseteq DOMAIN given)
    THEN [s |-> given.session, count |-> 0, raised |-> TRUE]
    ELSE IF ~({"subtitle_translations", "examples", "word_definitions"}
                 \subseteq DOMAIN given.ai_data)
    THEN [s |-> given.session, count |-> 0, raised |-> TRUE]
    ELSE LET ai == given.ai_data
             exs == [k \in 1..Len(ai.examples) |->
                       [gid |-> ai.examples[k].group_id,
                        wids |-> ai.examples[k].word_ids,
                        ex_ja |-> ai.examples[k].new_sentence_ja,
                        ex_ko |-> ai.examples[k].new_sentence_ko]]
             defs == [k \in 1..Len(ai.word_definitions) |->
                        [w_id |-> ai.word_definitions[k].word_id,
                         m |-> ai.word_definitions[k].meaning,
                         lv |-> ai.word_definitions[k].jlpt_level]]
             s1 == SaveResultsTrans(given.session, src, given.context_mapping,
                                    ai.subtitle_translations)
             e == SaveExs([s |-> s1, map |-> <<>>, raised |-> FALSE], dbv, src, exs)
             w == SaveWords([s |-> e.s, count |-> 0, loaded |-> {}, raised |-> FALSE],
                            dbv, src, Range(given.chunk), e.map, exs, defs)
         IN  IF e.raised THEN [s |-> e.s, count |-> 0, raised |-> TRUE]
             ELSE [s |-> w.s, count |-> w.count, raised |-> w.raised]

\* Lines 266-277: nothing pending, return 0.
V1EnhanceNoop(sid, bs) ==
    /\ pc \in {"idle", "returned", "raised", "fetch_raised"}
    /\ requests > 0
    /\ V1FetchRows(sid) = <<>>
    /\ StartRun(sid, bs, <<>>, <<>>)
    /\ pc' = "returned"
    /\ ret' = 0
    /\ UNCHANGED <<storeVars, pbVars, graphVars>>

\* Lines 266-282: the rows are cut into chunks of batch_size rows and one
\* _process_batch per chunk is handed to asyncio.gather.
V1EnhanceStart(sid, bs) ==
    /\ pc \in {"idle", "returned", "raised", "fetch_raised"}
    /\ requests > 0
    /\ V1FetchRows(sid) # <<>>
    /\ StartRun(sid, bs, V1FetchRows(sid), ChunkList(V1FetchRows(sid), bs))
    /\ pc' = "running"
    /\ ret' = -1
    /\ UNCHANGED <<storeVars, pbVars, graphVars>>

\* _process_batch, lines 126-137: enter the semaphore, build the payload.
V1AcquireSlot(b) ==
    /\ pc = "running"
    /\ task[b] = "waiting"
    /\ sem > 0
    /\ sem' = sem - 1
    /\ task' = [task EXCEPT ![b] = "calling"]
    /\ payload' = [payload EXCEPT ![b] = CreateInterleavedPayload(chunks[b])]
    /\ UNCHANGED <<storeVars, pbVars, graphVars, pc, runs, subtitle_id, batch_size, sess,
                   sentence_tasks, chunks, outcome, resp, result, doneq, success_counts,
                   completed_count, commits, ret, faults, db0, requests>>

\* _process_batch, lines 139-151: the call returns and parses; line 144 calls
\* self._save_results(session, chunk, ai_data); its count is returned, or its
\* exception is caught and 0 returned.
V1GenerationReturns(b, txt) ==
    /\ pc = "running"
    /\ task[b] = "calling"
    /\ LET r == V1EchoResponse(payload[b], txt)
           sv == SaveResults(db, [run |-> runs, batch |-> b],
                             [session |-> sess, chunk |-> chunks[b], ai_data |-> r])
       IN  /\ resp' = [resp EXCEPT ![b] = r]
           /\ sess' = sv.s
           /\ FinishTask(b, IF sv.raised THEN "save_error" ELSE "ok",
                            IF sv.raised THEN 0 ELSE sv.count)
    /\ UNCHANGED <<storeVars, pbVars, graphVars, pc, runs, subtitle_id, batch_size,
                   sentence_tasks, chunks, payload, success_counts,
                   completed_count, commits, ret, faults, db0, requests>>

\* Lines 282-286: gather returns the counts of all tasks in task order, then
\* session.commit() and return sum(success_counts).
V1GatherAndCommit ==
    /\ pc = "running"
    /\ \A b \in Batches : task[b] = "done"
    /\ success_counts' = result
    /\ completed_count' = Len(chunks)
    /\ doneq' = <<>>
    /\ commits' = commits + 1
    /\ LET fl == Flush(sess, db)
       IN  /\ sess' = fl.s
           /\ IF fl.raised
              THEN /\ pc' = "raised"
                   /\ ret' = -1
                   /\ db' = db
              ELSE /\ pc' = "returned"
                   /\ ret' = SumSeq(success_counts')
                   /\ db' = [trans |-> fl.s.trans, exs |-> fl.s.exs,
                             extrans |-> fl.s.extrans, lcs |-> fl.s.lcs,
                             level |-> fl.s.level]
    /\ UNCHANGED <<wsent, wvalid, wsub, pbVars, graphVars, runs, subtitle_id, batch_size,
                   sentence_tasks, chunks, task, sem, payload, outcome, resp, result,
                   faults, db0, requests>>

V1Next ==
    \/ \E sid \in Subtitles, bs \in BatchSizes : V1EnhanceNoop(sid, bs)
    \/ \E sid \in Subtitles, bs \in BatchSizes : V1EnhanceStart(sid, bs)
    \/ \E b \in Batches : V1AcquireSlot(b)
    \/ \E b \in Batches : GenerationRaises(b)
    \/ \E b \in Batches : ParseRaises(b)
    \/ \E b \in Batches : V1GenerationReturns(b, runs)
    \/ V1GatherAndCommit

SpecV1 == Init /\ [][V1Next]_vars

\* C31: in the service of the enhance endpoint, a batch whose generation call
\* and response parsing both succeed has its response reconciled: the
\* reconciler runs to its end and the batch's count is the number of
\* learning-content rows the reconciler created for it.
C31_ParsedResponseReconciled ==
    [][\A b \in Batches :
          ( /\ task[b] = "calling"
            /\ task'[b] = "done"
            /\ outcome'[b] \notin {"gen_error", "parse_error"} )
          => /\ outcome'[b] = "ok"
             /\ result'[b] =
                   Cardinality({k \in 1..Len(sess'.lcs \o sess'.plcs) :
                                  (sess'.lcs \o sess'.plcs)[k].src = ThisSrc(b)})
      ]_vars

\* ============================================================== fair runs
\* One enhance run of ai_word_serviceV2.py with every outcome of a generation
\* call (it returns a response, it raises, its answer does not parse, it
\* never returns), the tasks and the loop of enhance_words_hybrid executed
\* fairly by the event loop.
AnyCallResolves(b) ==
    /\ b \in Batches
    /\ \/ GenerationStalls(b)
       \/ GenerationRaises(b)
       \/ ParseRaises(b)
       \/ \E kind \in ResponseKinds : GenerationReturns(b, kind, runs)

FairNext ==
    \/ \E sid \in Subtitles, bs \in BatchSizes : EnhanceNoop(sid, bs)
    \/ \E sid \in Subtitles, bs \in BatchSizes : EnhanceStart(sid, bs)
    \/ \E b \in Batches : AcquireSlot(b)
    \/ \E b \in Batches : GenerationRaises(b)
    \/ \E b \in Batches : ParseRaises(b)
    \/ \E b \in Batches, kind \in ResponseKinds : GenerationReturns(b, kind, runs)
    \/ \E b \in Batches : GenerationStalls(b)
    \/ CollectNext
    \/ CollectLastAndCommit

SpecFair ==
    /\ StallInit
    /\ [][FairNext]_vars
    /\ \A b \in Words : WF_vars(SlotTaken(b))
    /\ \A b \in Words : WF_vars(AnyCallResolves(b))
    /\ WF_vars(CollectNext)
    /\ WF_vars(CollectLastAndCommit)

\* C32: if every generation call returns or raises (none is stalled), every
\* batch task of a run gets a slot and completes, and the run issues its final
\* commit and returns.
C32_RunEventuallyReturns ==
    [](Stalled = {}) =>
        /\ \A b \in Words :
              (b \in Batches /\ task[b] = "waiting") ~> (b \in Batches /\ task[b] = "done")
        /\ (pc = "running") ~> (commits = 1 /\ pc = "returned")

\* ============================================================== failed batches
\* The rows of the store written by batch b of the current run.
WrittenBy(dbv, b) ==
    [trans |-> SelectSeq(dbv.trans, LAMBDA r : r.src = ThisSrc(b)),
     exs |-> SelectSeq(dbv.exs, LAMBDA r : r.src = ThisSrc(b)),
     extrans |-> SelectSeq(dbv.extrans,
                           LAMBDA r : dbv.exs[r.example_id].src = ThisSrc(b)),
     lcs |-> SelectSeq(dbv.lcs, LAMBDA r : r.src = ThisSrc(b))]

NothingWritten == [trans |-> <<>>, exs |-> <<>>, extrans |-> <<>>, lcs |-> <<>>]

\* C33: a batch whose task caught an exception and returned 0 leaves the store
\* unchanged: the store holds no translation, example, example translation or
\* learning-content row written by that batch, and the levels of the batch's
\* words are those the store had when the run started.
C33_FailedBatchPersistsNothing ==
    \A b \in Batches :
        (task[b] = "done" /\ outcome[b] \in Failed)
        => /\ WrittenBy(db, b) = NothingWritten
           /\ \A w \in Range(ChunkWordIds(chunks[b])) : db.level[w] = db0.level[w]

\* A batch added its translations, failed at its own flush and returned 0;
\* another batch of the run was reconciled; the final commit was issued.
C33_Witness ==
    /\ commits = 1
    /\ pc \in {"returned", "raised"}
    /\ \E b, c \in Batches :
          /\ outcome[b] = "save_error"
          /\ \E i, j \in 1..Len(resp[b].trans) :
                /\ i # j
                /\ resp[b].trans[i].s_id = resp[b].trans[j].s_id
                /\ resp[b].trans[i].s_id \in Range(ChunkSentenceIds(chunks[b]))
          /\ resp[b].exs # <<>>
          /\ outcome[c] = "ok"
          /\ result[c] > 0

====
